---- MODULE Spec2Model ----
(***************************************************************************)
(* Model of the Naman-Digital applications: the inventory manager (Flask   *)
(* over inventory.db), the hotel booking system (Flask over hotel.db) and  *)
(* the library manager (DatabaseManager over library.db) and the task      *)
(* manager (TaskManager over tasks.json).  The programs                    *)
(* are independent; `app` says which of them a behaviour is a run of.      *)
(***************************************************************************)
EXTENDS Integers, Sequences, FiniteSets, TLC

VARIABLES
    app,            \* the program this behaviour runs
    items,          \* inventory.db: committed rows of table items, by id
    transactions,   \* inventory.db: committed rows of table transactions, by id
    conn,           \* inventory: one request handler and its connection per slot
    response,       \* inventory: how the handler that returned last ended
    dbLock,         \* inventory.db: the connection holding the write lock, 0 if none
    rooms,          \* hotel.db: committed status of each room, by id
    bookings,       \* hotel.db: committed rows of table bookings, by id
    hotelResult,    \* hotel: what the last request flashed
    hotelRequest,   \* hotel: session['user_id'] and the id in the URL of the last request
    books,          \* library.db: table books, id -> row
    users,          \* library.db: table users, id -> row
    borrow_records, \* library.db: table borrow_records, id -> row
    reservations,   \* library.db: table reservations, id -> row
    libResult,      \* library: outcome of the last DatabaseManager call
    tasks,          \* task manager: TaskManager.tasks, the in-memory list
    taskFile,       \* task manager: the file tasks.json
    overdue         \* task manager: the last get_overdue_tasks call and its result

inventoryVars == <<items, transactions, conn, response, dbLock>>
hotelVars == <<rooms, bookings, hotelResult, hotelRequest>>
libraryVars == <<books, users, borrow_records, reservations, libResult>>
taskVars == <<tasks, taskFile, overdue>>
vars == <<app, items, transactions, conn, response, dbLock, rooms, bookings, hotelResult,
          hotelRequest,
          books, users, borrow_records, reservations, libResult, tasks, taskFile, overdue>>

None == "None"

(***************************************************************************)
(* Bounds of the model.                                                    *)
(***************************************************************************)
MaxRequests == 2      \* concurrent request handlers of the inventory app
MaxItems == 1         \* rows of table items
MaxTransactions == 3  \* rows of table transactions

(***************************************************************************)
(* Inventory Management System (src/002_Inventory_Management_System).      *)
(***************************************************************************)
Requests == 1..MaxRequests

\* int(request.form['item_id']): the ids of the rows and one id of no row
ItemIds == 1..(MaxItems + 1)
\* int(request.form['quantity']) of add_item and of add_transaction: any integer
ItemQuantities == {-1, 10}
TransQuantities == {-1, 6}
\* request.form['type']: the CHECK of table transactions admits 'in' and 'out'
TransTypes == {"in", "out", "adjust"}
CheckedTypes == {"in", "out"}
Prices == {2}
MinimumStocks == {10}
\* int(request.form['minimum_stock']) of edit_item
EditedMinimumStocks == {4}

IdleConn ==
    [handler |-> "none", pc |-> "idle", item_id |-> 0, trans_type |-> None,
     quantity |-> 0, unit_price |-> 0, minimum_stock |-> 0,
     read_quantity |-> 0, new_quantity |-> 0,
     total_items |-> 0, total_value |-> 0, low_stock |-> 0,
     recent_transactions |-> <<>>, low_stock_items |-> <<>>, read_at |-> <<>>]

\* a handler is between its first statement and its return
InFlight(r) == conn[r].pc # "idle"

NumInFlight == Cardinality({r \in Requests : InFlight(r)})

\* a new request is served by the first idle handler
Accepts(r) == ~InFlight(r) /\ \A q \in Requests : q < r => InFlight(q)

\* db.execute('SELECT quantity FROM items WHERE id = ?').fetchone()
SelectItem(item_id) ==
    IF item_id \in DOMAIN items THEN <<items[item_id]>> ELSE <<>>

\* the stock check with its comparison turned round
InsufficientStockInverted(trans_type, quantity, item_quantity) ==
    trans_type = "out" /\ quantity < item_quantity

\* line 274: trans_type == 'out' and quantity > item['quantity']
InsufficientStock(trans_type, quantity, item_quantity) ==
    trans_type = "out" /\ quantity > item_quantity

\* line 279
NewQuantity(trans_type, quantity, item_quantity) ==
    IF trans_type = "in" THEN item_quantity + quantity
    ELSE item_quantity - quantity

\* add_transaction, lines 264-279: parse the form, read the item, check the stock
AddTransactionSelect(r, item_id, trans_type, quantity, unit_price) ==
    /\ app = "inventory"
    /\ Accepts(r)
    /\ Len(transactions) + NumInFlight < MaxTransactions
    /\   LET row == SelectItem(item_id)
             item == row[1]
             call == [IdleConn EXCEPT !.handler = "add_transaction",
                                      !.item_id = item_id,
                                      !.trans_type = trans_type,
                                      !.quantity = quantity,
                                      !.unit_price = unit_price]
         IN  IF row = <<>>
             THEN \* item is None: item['quantity'] raises TypeError
                  /\ response' = "TypeError"
                  /\ conn' = [conn EXCEPT ![r] = IdleConn]
             ELSE IF InsufficientStock(trans_type, quantity, item.quantity)
             THEN \* lines 275-276: flash the error and return
                  /\ response' = "InsufficientStock"
                  /\ conn' = [conn EXCEPT ![r] = IdleConn]
             ELSE /\ response' = response
                  /\ conn' = [conn EXCEPT ![r] =
                         [call EXCEPT !.pc = "checked",
                                      !.read_quantity = item.quantity,
                                      !.new_quantity =
                                          NewQuantity(trans_type, quantity, item.quantity)]]
    /\ UNCHANGED <<app, items, transactions, dbLock, hotelVars, libraryVars, taskVars>>

\* add_transaction, line 280: the UPDATE opens the connection's transaction and
\* takes the database's write lock
AddTransactionUpdate(r) ==
    /\ app = "inventory"
    /\ conn[r].handler = "add_transaction"
    /\ conn[r].pc = "checked"
    /\ dbLock = 0
    /\ dbLock' = r
    /\ conn' = [conn EXCEPT ![r].pc = "updated"]
    /\ UNCHANGED <<app, response, items, transactions, hotelVars, libraryVars, taskVars>>

\* a connection whose wait for the write lock has no timeout
LockWaitsForever(r) ==
    /\ app = "inventory"
    /\ conn[r].pc \in {"checked", "parsed"}
    /\ dbLock # 0
    /\ UNCHANGED vars

\* sqlite3.connect's timeout runs out while another connection holds the write
\* lock: OperationalError (database is locked) leaves the handler
LockTimeout(r) ==
    /\ app = "inventory"
    /\ conn[r].pc \in {"checked", "parsed"}
    /\ dbLock # 0
    /\ conn' = [conn EXCEPT ![r] = IdleConn]
    /\ response' = "OperationalError"
    /\ UNCHANGED <<app, items, transactions, dbLock, hotelVars, libraryVars, taskVars>>

\* add_transaction, lines 283-287: the INSERT, under the CHECK on type
AddTransactionInsert(r) ==
    /\ app = "inventory"
    /\ conn[r].handler = "add_transaction"
    /\ conn[r].pc = "updated"
    /\ conn' = [conn EXCEPT ![r] =
           IF conn[r].trans_type \in CheckedTypes
           THEN [@ EXCEPT !.pc = "inserted"]
           ELSE [@ EXCEPT !.pc = "aborted"]]
    /\ UNCHANGED <<app, response, items, transactions, dbLock, hotelVars, libraryVars, taskVars>>

\* the rows a connection's commit writes to table items
CommitItems(c) ==
    IF c.handler = "add_transaction"
    THEN [items EXCEPT ![c.item_id].quantity = c.new_quantity]
    ELSE IF c.handler = "edit_item"
    THEN IF c.item_id \in DOMAIN items
         THEN [items EXCEPT ![c.item_id].minimum_stock = c.minimum_stock]
         ELSE items   \* UPDATE ... WHERE id=? of no row
    ELSE Append(items, [quantity |-> c.quantity, unit_price |-> c.unit_price,
                        minimum_stock |-> c.minimum_stock])

\* a commit whose INSERT takes the place of the newest row
CommitTransactionsReplacing(c) ==
    LET row == [item_id |-> IF c.handler = "add_transaction" THEN c.item_id
                            ELSE Len(items) + 1,
                type |-> IF c.handler = "add_transaction" THEN c.trans_type ELSE "in",
                quantity |-> c.quantity, unit_price |-> c.unit_price]
    IN  IF c.handler = "edit_item" THEN transactions
        ELSE IF transactions = <<>> THEN <<row>>
        ELSE [transactions EXCEPT ![Len(transactions)] = row]

\* the rows a connection's commit writes to table transactions
CommitTransactions(c) ==
    IF c.handler = "add_transaction"
    THEN Append(transactions, [item_id |-> c.item_id, type |-> c.trans_type,
                               quantity |-> c.quantity, unit_price |-> c.unit_price])
    ELSE IF c.handler = "edit_item" THEN transactions
    ELSE IF c.quantity > 0
    THEN Append(transactions, [item_id |-> Len(items) + 1, type |-> "in",
                               quantity |-> c.quantity, unit_price |-> c.unit_price])
    ELSE transactions

\* db.commit() of add_transaction (line 289), of add_item (line 214) and of
\* edit_item (line 238)
Commit(r) ==
    /\ app = "inventory"
    /\ conn[r].pc = "inserted"
    /\ dbLock = r
    /\ items' = CommitItems(conn[r])
    /\ transactions' = CommitTransactions(conn[r])
    /\ dbLock' = 0
    /\ conn' = [conn EXCEPT ![r] = IdleConn]
    /\ response' = "ok"
    /\ UNCHANGED <<app, hotelVars, libraryVars, taskVars>>

\* a connection left open by an exception is finalised: its transaction is
\* rolled back and the write lock released
Rollback(r) ==
    /\ app = "inventory"
    /\ conn[r].pc = "aborted"
    /\ dbLock = r
    /\ dbLock' = 0
    /\ conn' = [conn EXCEPT ![r] = IdleConn]
    /\ response' = "IntegrityError"
    /\ UNCHANGED <<app, items, transactions, hotelVars, libraryVars, taskVars>>

\* add_item, lines 193-198: parse the form
AddItemParse(r) ==
    /\ app = "inventory"
    /\ Accepts(r)
    /\ Len(items) + Cardinality({q \in Requests : InFlight(q) /\ conn[q].handler = "add_item"})
           < MaxItems
    /\ Len(transactions) + NumInFlight < MaxTransactions
    /\ \E quantity \in ItemQuantities, unit_price \in Prices,
          minimum_stock \in MinimumStocks :
         conn' = [conn EXCEPT ![r] =
                     [IdleConn EXCEPT !.handler = "add_item", !.pc = "parsed",
                                      !.quantity = quantity,
                                      !.unit_price = unit_price,
                                      !.minimum_stock = minimum_stock]]
    /\ UNCHANGED <<app, response, items, transactions, dbLock, hotelVars, libraryVars, taskVars>>

\* add_item, lines 200-212: INSERT the item and, if quantity > 0, its initial
\* 'in' transaction, inside the transaction the first INSERT opens
AddItemInsert(r) ==
    /\ app = "inventory"
    /\ conn[r].handler = "add_item"
    /\ conn[r].pc = "parsed"
    /\ dbLock = 0
    /\ dbLock' = r
    /\ conn' = [conn EXCEPT ![r].pc = "inserted"]
    /\ UNCHANGED <<app, response, items, transactions, hotelVars, libraryVars, taskVars>>

\* edit_item, POST, lines 223-230: the SELECT of the item, whose row only the
\* GET renders, and the form
EditItemParse(r, id, minimum_stock) ==
    /\ app = "inventory"
    /\ Accepts(r)
    /\ conn' = [conn EXCEPT ![r] =
                   [IdleConn EXCEPT !.handler = "edit_item", !.pc = "parsed",
                                    !.item_id = id,
                                    !.minimum_stock = minimum_stock]]
    /\ UNCHANGED <<app, response, items, transactions, dbLock, hotelVars, libraryVars, taskVars>>

\* edit_item, lines 232-237: the UPDATE of name, description, category and
\* minimum_stock opens the connection's transaction and takes the write lock
EditItemUpdate(r) ==
    /\ app = "inventory"
    /\ conn[r].handler = "edit_item"
    /\ conn[r].pc = "parsed"
    /\ dbLock = 0
    /\ dbLock' = r
    /\ conn' = [conn EXCEPT ![r].pc = "inserted"]
    /\ UNCHANGED <<app, response, items, transactions, hotelVars, libraryVars, taskVars>>

\* LIMIT of the dashboard's two lists (lines 165 and 172)
RecentLimit == 5
LowStockLimit == 5

\* every commit of the app adds a row or changes a minimum_stock, so the
\* numbers of committed rows and the minimum stocks tell the committed states
\* of a run apart: two SELECTs that read at the same DataVersion read the same
\* committed state
DataVersion ==
    <<Len(items), Len(transactions), [i \in DOMAIN items |-> items[i].minimum_stock]>>

RECURSIVE SumUpTo(_, _)
\* quantity * unit_price summed over the first n rows of tbl
SumUpTo(tbl, n) ==
    IF n = 0 THEN 0
    ELSE SumUpTo(tbl, n - 1) + tbl[n].quantity * tbl[n].unit_price

\* the statement summing the quantities only
SqlSumOfQuantities(tbl) ==
    IF tbl = <<>> THEN <<>>
    ELSE <<SumUpTo([i \in DOMAIN tbl |-> [tbl[i] EXCEPT !.unit_price = 1]], Len(tbl))>>

\* SELECT SUM(quantity * unit_price) FROM items: NULL (<<>>) on no rows
SqlSum(tbl) == IF tbl = <<>> THEN <<>> ELSE <<SumUpTo(tbl, Len(tbl))>>

\* fetchone()[0] or 0 (line 154)
OrZero(value) == IF value = <<>> THEN 0 ELSE value[1]

\* WHERE quantity <= minimum_stock (lines 156 and 171)
LowStock(row) == row.quantity <= row.minimum_stock

LowStockIds(tbl) == {i \in DOMAIN tbl : LowStock(tbl[i])}

RECURSIVE OrderedByQuantity(_, _, _)
\* ORDER BY quantity ASC LIMIT limit over the rows ids of tbl: every order of
\* the rows by ascending quantity (rows of equal quantity come in any order),
\* cut after limit rows
OrderedByQuantity(tbl, ids, limit) ==
    IF limit = 0 \/ ids = {} THEN {<<>>}
    ELSE LET least == {i \in ids : \A j \in ids : tbl[i].quantity <= tbl[j].quantity}
         IN  UNION {{<<[id |-> i, quantity |-> tbl[i].quantity]>> \o rest :
                        rest \in OrderedByQuantity(tbl, ids \ {i}, limit - 1)} :
                    i \in least}

\* SELECT * FROM items WHERE quantity <= minimum_stock ORDER BY quantity ASC
\* LIMIT 5 (lines 169-173): the lists the statement may return
LowStockItems(tbl) == OrderedByQuantity(tbl, LowStockIds(tbl), LowStockLimit)

RECURSIVE NewestFirst(_, _)
\* the ids of the first n rows of transactions that JOIN an item, newest first,
\* cut after limit rows (rows are stamped created_at as they are inserted)
NewestFirst(n, limit) ==
    IF n = 0 \/ limit = 0 THEN <<>>
    ELSE IF transactions[n].item_id \in DOMAIN items
         THEN <<n>> \o NewestFirst(n - 1, limit - 1)
         ELSE NewestFirst(n - 1, limit)

\* SELECT ... FROM transactions t JOIN items i ... ORDER BY t.created_at DESC
\* LIMIT 5 (lines 161-166)
RecentTransactions == NewestFirst(Len(transactions), RecentLimit)

\* dashboard, line 152: SELECT COUNT(*) FROM items
DashboardTotalItems(r) ==
    /\ app = "inventory"
    /\ Accepts(r)
    /\ conn' = [conn EXCEPT ![r] =
           [IdleConn EXCEPT !.handler = "dashboard", !.pc = "total_items",
                            !.total_items = Len(items),
                            !.read_at = <<DataVersion>>]]
    /\ UNCHANGED <<app, response, items, transactions, dbLock, hotelVars, libraryVars, taskVars>>

\* dashboard, lines 153-155: SELECT SUM(quantity * unit_price) FROM items
DashboardTotalValue(r) ==
    /\ app = "inventory"
    /\ conn[r].handler = "dashboard"
    /\ conn[r].pc = "total_items"
    /\ conn' = [conn EXCEPT ![r].pc = "total_value",
                            ![r].total_value = OrZero(SqlSum(items)),
                            ![r].read_at = Append(@, DataVersion)]
    /\ UNCHANGED <<app, response, items, transactions, dbLock, hotelVars, libraryVars, taskVars>>

\* dashboard, lines 156-158: SELECT COUNT(*) FROM items WHERE quantity <= minimum_stock
DashboardLowStock(r) ==
    /\ app = "inventory"
    /\ conn[r].handler = "dashboard"
    /\ conn[r].pc = "total_value"
    /\ conn' = [conn EXCEPT ![r].pc = "low_stock",
                            ![r].low_stock = Cardinality(LowStockIds(items)),
                            ![r].read_at = Append(@, DataVersion)]
    /\ UNCHANGED <<app, response, items, transactions, dbLock, hotelVars, libraryVars, taskVars>>

\* dashboard, lines 161-166: the recent transactions
DashboardRecentTransactions(r) ==
    /\ app = "inventory"
    /\ conn[r].handler = "dashboard"
    /\ conn[r].pc = "low_stock"
    /\ conn' = [conn EXCEPT ![r].pc = "recent_transactions",
                            ![r].recent_transactions = RecentTransactions,
                            ![r].read_at = Append(@, DataVersion)]
    /\ UNCHANGED <<app, response, items, transactions, dbLock, hotelVars, libraryVars, taskVars>>

\* dashboard, lines 169-173: the low-stock items
DashboardLowStockItems(r) ==
    /\ app = "inventory"
    /\ conn[r].handler = "dashboard"
    /\ conn[r].pc = "recent_transactions"
    /\ \E rows \in LowStockItems(items) :
          conn' = [conn EXCEPT ![r].pc = "rendering",
                               ![r].low_stock_items = rows,
                               ![r].read_at = Append(@, DataVersion)]
    /\ UNCHANGED <<app, response, items, transactions, dbLock, hotelVars, libraryVars, taskVars>>

\* dashboard, lines 175-179: close the connection and render the page
DashboardRender(r) ==
    /\ app = "inventory"
    /\ conn[r].handler = "dashboard"
    /\ conn[r].pc = "rendering"
    /\ conn' = [conn EXCEPT ![r] = IdleConn]
    /\ response' = "dashboard"
    /\ UNCHANGED <<app, items, transactions, dbLock, hotelVars, libraryVars, taskVars>>

NextDashboard ==
    \E r \in Requests :
        \/ DashboardTotalItems(r)
        \/ DashboardTotalValue(r)
        \/ DashboardLowStock(r)
        \/ DashboardRecentTransactions(r)
        \/ DashboardLowStockItems(r)
        \/ DashboardRender(r)

NextInventory ==
    \/ NextDashboard
    \/ \E r \in Requests :
        \/ \E item_id \in ItemIds, trans_type \in TransTypes,
              quantity \in TransQuantities, unit_price \in Prices :
               AddTransactionSelect(r, item_id, trans_type, quantity, unit_price)
        \/ AddTransactionUpdate(r)
        \/ AddTransactionInsert(r)
        \/ AddItemParse(r)
        \/ AddItemInsert(r)
        \/ LockTimeout(r)
        \/ Commit(r)
        \/ Rollback(r)

\* the handlers that write table items: add_item, edit_item, add_transaction
NextItems ==
    \E r \in Requests :
        \/ \E item_id \in ItemIds, trans_type \in TransTypes,
              quantity \in TransQuantities, unit_price \in Prices :
               AddTransactionSelect(r, item_id, trans_type, quantity, unit_price)
        \/ AddTransactionUpdate(r)
        \/ AddTransactionInsert(r)
        \/ AddItemParse(r)
        \/ AddItemInsert(r)
        \/ \E id \in ItemIds, minimum_stock \in EditedMinimumStocks :
               EditItemParse(r, id, minimum_stock)
        \/ EditItemUpdate(r)
        \/ LockTimeout(r)
        \/ Commit(r)
        \/ Rollback(r)

(***************************************************************************)
(* Hotel Booking System (src/003_Hotel_Booking_System).  Each handler runs *)
(* one transaction on its own connection; a handler is one step.           *)
(***************************************************************************)
NumRooms == 1       \* rows of table rooms (init_db inserts the sample rooms)
MaxBookings == 2    \* rows of table bookings

\* session['user_id']: the registered users
Guests == {1, 2}
\* room_id of the URL: the ids of the rooms and one id of no room
RoomIds == 1..(NumRooms + 1)
BookingIds == 1..(MaxBookings + 1)
\* check_in and check_out of the form, as day numbers
Days == {1, 2}
PricePerNight == 100

\* lines 182-185: nights and total price of a stay
TotalPrice(price_per_night, check_in, check_out) ==
    price_per_night * (check_out - check_in)

\* book_room, POST, lines 172-200
BookRoom(user_id, room_id, check_in, check_out) ==
    /\ app = "hotel"
    /\ Len(bookings) < MaxBookings
    /\ hotelRequest' = [user_id |-> user_id, id |-> room_id]
    /\ IF room_id \notin DOMAIN rooms
       THEN \* room is None: room['price_per_night'] raises TypeError
            /\ hotelResult' = "TypeError"
            /\ UNCHANGED <<rooms, bookings>>
       ELSE /\ bookings' = Append(bookings,
                   [user_id |-> user_id, room_id |-> room_id,
                    check_in_date |-> check_in, check_out_date |-> check_out,
                    total_price |->
                        TotalPrice(rooms[room_id].price_per_night, check_in, check_out),
                    status |-> "confirmed"])
            /\ rooms' = [rooms EXCEPT ![room_id].status = "occupied"]
            /\ hotelResult' = "Booking confirmed!"
    /\ UNCHANGED <<app, inventoryVars, libraryVars, taskVars>>

\* the SELECT without its condition on user_id
SelectBookingById(booking_id, user_id) ==
    booking_id \in DOMAIN bookings

\* SELECT room_id FROM bookings WHERE id = ? AND user_id = ?
SelectBooking(booking_id, user_id) ==
    booking_id \in DOMAIN bookings /\ bookings[booking_id].user_id = user_id

\* cancel_booking, lines 221-238
CancelBooking(user_id, booking_id) ==
    /\ app = "hotel"
    /\ hotelRequest' = [user_id |-> user_id, id |-> booking_id]
    /\ IF SelectBooking(booking_id, user_id)
       THEN /\ bookings' = [bookings EXCEPT ![booking_id].status = "cancelled"]
            /\ rooms' = [rooms EXCEPT ![bookings[booking_id].room_id].status = "available"]
            /\ hotelResult' = "Booking cancelled successfully!"
       ELSE /\ hotelResult' = "Booking not found!"
            /\ UNCHANGED <<rooms, bookings>>
    /\ UNCHANGED <<app, inventoryVars, libraryVars, taskVars>>

\* sqlite3.Error in book_room (lines 197-198) or cancel_booking (lines 234-235):
\* the connection is closed without a commit
HotelSqliteError ==
    /\ app = "hotel"
    /\ hotelResult' \in {"Error making booking. Please try again.",
                         "Error cancelling booking. Please try again."}
    /\ UNCHANGED <<rooms, bookings, hotelRequest>>
    /\ UNCHANGED <<app, inventoryVars, libraryVars, taskVars>>

NextHotel ==
    \/ \E user_id \in Guests, room_id \in RoomIds, check_in \in Days, check_out \in Days :
           BookRoom(user_id, room_id, check_in, check_out)
    \/ \E user_id \in Guests, booking_id \in BookingIds :
           CancelBooking(user_id, booking_id)
    \/ HotelSqliteError

(***************************************************************************)
(* Library Management System (src/004_Library_management_System): the      *)
(* DatabaseManager over the tables its setup_database creates, and the     *)
(* window's import_data.  The window runs one call at a time, each on its  *)
(* own connection, committed as one transaction or not at all.             *)
(***************************************************************************)
MaxRecords == 2        \* rows of table borrow_records
MaxReservations == 1   \* rows of table reservations

\* ids are TEXT PRIMARY KEYs
BookKeys == {"b1"}
UserKeys == {"u1"}
RecordKeys == 1..MaxRecords
ReservationKeys == 1..MaxReservations
\* BookStatus, lines 27-33
BookStatuses == {"Available", "Borrowed", "Reserved", "Maintenance"}
\* return_date and late_fee arguments of return_book (days; 0 stands for NULL)
ReturnDates == {1, 2}
LateFees == {0, 2}
\* due_date of a borrow record, as a day number
DueDates == {1}
\* return_book is not called again once a counter has fallen this far below 0
BorrowedFloor == 1

\* columns of table borrow_records (setup_database) and the values the INSERT of
\* add_borrow_record supplies for them
BorrowRecordsColumns == 10
BorrowRecordsValues == 8
\* columns of table users (setup_database) and the values add_user supplies
UsersColumns == 12
UsersValues == 8

\* INSERT INTO t VALUES (?, ...) is accepted only with one value per column
\* (else OperationalError: table t has N columns but M values were supplied)
InsertFits(columns, supplied) == columns = supplied

\* tbl with the row `row` stored under primary key `key`
InsertRow(tbl, key, row) ==
    [k \in DOMAIN tbl \cup {key} |-> IF k = key THEN row ELSE tbl[k]]

\* UPDATE books SET status = ? WHERE id = ?
UpdateBookStatus(tbl, book_id, status) ==
    [k \in DOMAIN tbl |-> IF k = book_id THEN [tbl[k] EXCEPT !.status = status] ELSE tbl[k]]

\* UPDATE users SET borrowed_books = borrowed_books + delta WHERE id = ?
UpdateBorrowedBooks(tbl, user_id, delta) ==
    [k \in DOMAIN tbl |->
        IF k = user_id
        THEN [tbl[k] EXCEPT !.borrowed_books = @ + delta]
        ELSE tbl[k]]

\* UPDATE borrow_records SET return_date = ?, late_fee = ?, status = 'Returned'
\* WHERE id = ?
CloseRecord(tbl, record_id, return_date, late_fee) ==
    [tbl EXCEPT ![record_id] = [@ EXCEPT !.return_date = return_date,
                                         !.late_fee = late_fee,
                                         !.status = "Returned"]]

LibResult(op, outcome) == [op |-> op, outcome |-> outcome]

\* DatabaseManager.add_book, lines 222-244
AddBook(id, status) ==
    /\ app = "library"
    /\ IF id \notin DOMAIN books
       THEN /\ books' = InsertRow(books, id, [status |-> status])
            /\ libResult' = LibResult("add_book", "True")
       ELSE \* IntegrityError: UNIQUE constraint failed
            /\ libResult' = LibResult("add_book", "False")
            /\ UNCHANGED books
    /\ UNCHANGED <<app, users, borrow_records, reservations, inventoryVars, hotelVars, taskVars>>

\* DatabaseManager.add_user, lines 246-260
AddUser(id) ==
    /\ app = "library"
    /\ IF InsertFits(UsersColumns, UsersValues) /\ id \notin DOMAIN users
       THEN /\ users' = InsertRow(users, id, [borrowed_books |-> 0])
            /\ libResult' = LibResult("add_user", "True")
       ELSE /\ libResult' = LibResult("add_user", "False")
            /\ UNCHANGED users
    /\ UNCHANGED <<app, books, borrow_records, reservations, inventoryVars, hotelVars, taskVars>>

\* DatabaseManager.add_borrow_record, lines 262-282
AddBorrowRecord(id, book_id, user_id) ==
    /\ app = "library"
    /\ IF InsertFits(BorrowRecordsColumns, BorrowRecordsValues)
          /\ id \notin DOMAIN borrow_records
       THEN /\ \E due_date \in DueDates :
                   borrow_records' = InsertRow(borrow_records, id,
                       [book_id |-> book_id, user_id |-> user_id, status |-> "Active",
                        due_date |-> due_date, return_date |-> 0, late_fee |-> 0])
            /\ books' = UpdateBookStatus(books, book_id, "Borrowed")
            /\ users' = UpdateBorrowedBooks(users, user_id, 1)
            /\ libResult' = LibResult("add_borrow_record", "True")
       ELSE \* sqlite3.Error: nothing is committed
            /\ libResult' = LibResult("add_borrow_record", "False")
            /\ UNCHANGED <<books, users, borrow_records>>
    /\ UNCHANGED <<app, reservations, inventoryVars, hotelVars, taskVars>>

\* return_book committing after each statement and failing after the first
ReturnBookCommitsEachStatement(record_id, return_date, late_fee) ==
    /\ app = "library"
    /\ record_id \in DOMAIN borrow_records
    /\ borrow_records' = CloseRecord(borrow_records, record_id, return_date, late_fee)
    /\ libResult' = LibResult("return_book", "False")
    /\ UNCHANGED <<app, books, users, reservations, inventoryVars, hotelVars, taskVars>>

\* DatabaseManager.return_book, lines 284-313
ReturnBook(record_id, return_date, late_fee) ==
    /\ app = "library"
    /\ IF record_id \notin DOMAIN borrow_records
       THEN \* c.fetchone() is None: unpacking it raises TypeError
            /\ libResult' = LibResult("return_book", "TypeError")
            /\ UNCHANGED <<books, users, borrow_records>>
       ELSE LET book_id == borrow_records[record_id].book_id
                user_id == borrow_records[record_id].user_id
            IN  /\ user_id \in DOMAIN users => users[user_id].borrowed_books > -BorrowedFloor
                /\ borrow_records' = CloseRecord(borrow_records, record_id, return_date, late_fee)
                /\ books' = UpdateBookStatus(books, book_id, "Available")
                /\ users' = UpdateBorrowedBooks(users, user_id, -1)
                /\ libResult' = LibResult("return_book", "True")
    /\ UNCHANGED <<app, reservations, inventoryVars, hotelVars, taskVars>>

\* sqlite3.Error inside return_book (lines 309-311): the connection is closed
\* without a commit
ReturnBookSqliteError ==
    /\ app = "library"
    /\ libResult' = LibResult("return_book", "False")
    /\ UNCHANGED <<app, books, users, borrow_records, reservations, inventoryVars, hotelVars, taskVars>>

\* the rows of an imported borrow_records.csv: loans that are open
ImportableRecords ==
    [book_id : BookKeys, user_id : UserKeys, status : {"Active"},
     due_date : DueDates, return_date : {0}, late_fee : {0}]

\* LibraryApp.import_data, lines 695-724, on a directory holding one row for one
\* table; a row whose key exists raises IntegrityError and nothing is committed
ImportData ==
    /\ app = "library"
    /\ \/ \E id \in BookKeys, status \in BookStatuses :
            /\ id \notin DOMAIN books
            /\ books' = InsertRow(books, id, [status |-> status])
            /\ UNCHANGED <<users, borrow_records, reservations>>
       \/ \E id \in UserKeys, borrowed_books \in {0, 1} :
            /\ id \notin DOMAIN users
            /\ users' = InsertRow(users, id, [borrowed_books |-> borrowed_books])
            /\ UNCHANGED <<books, borrow_records, reservations>>
       \/ \E id \in RecordKeys, row \in ImportableRecords :
            /\ id \notin DOMAIN borrow_records
            /\ borrow_records' = InsertRow(borrow_records, id, row)
            /\ UNCHANGED <<books, users, reservations>>
       \/ \E id \in ReservationKeys, book_id \in BookKeys, reservation_date \in ReturnDates :
            /\ id \notin DOMAIN reservations
            /\ reservations' = InsertRow(reservations, id,
                   [book_id |-> book_id, reservation_date |-> reservation_date,
                    status |-> "Active"])
            /\ UNCHANGED <<books, users, borrow_records>>
    /\ libResult' = LibResult("import_data", "imported")
    /\ UNCHANGED <<app, inventoryVars, hotelVars, taskVars>>

NextLibrary ==
    \/ \E id \in BookKeys, status \in BookStatuses : AddBook(id, status)
    \/ \E id \in UserKeys : AddUser(id)
    \/ \E id \in RecordKeys, book_id \in BookKeys, user_id \in UserKeys :
           AddBorrowRecord(id, book_id, user_id)
    \/ \E record_id \in 1..(MaxRecords + 1), return_date \in ReturnDates, late_fee \in LateFees :
           ReturnBook(record_id, return_date, late_fee)
    \/ ReturnBookSqliteError
    \/ ImportData

(***************************************************************************)
(* Task Manager Desktop App (src/001_Task_Management_Desktop_app): the     *)
(* TaskManager, its in-memory list and the file it saves the list to.  The *)
(* window runs one handler at a time; each handler that changes the list   *)
(* ends with refresh_task_list, which asks for the overdue tasks again.    *)
(***************************************************************************)
MaxTasks == 2    \* tasks in the list

\* Task.id: str(uuid.uuid4()), a value no task of the list has
TaskIds == 1..MaxTasks
\* Task.due_date is a string: n > 0 stands for the ISO text of day n at
\* T00:00:00, 0 for a text that is no ISO date
TaskDueDates == {0, 1, 2}
\* Status, lines 25-28; every method treats "In Progress" as it does "Pending"
TaskStatuses == {"Pending", "Completed"}
\* date.today()
Todays == {2, 3}
\* the day of the first start
FirstDay == CHOOSE today \in Todays : \A other \in Todays : today <= other

\* Task.title, the first column of the window's rows
Titles == {"a", "b"}

Tasks == [id : TaskIds, title : Titles, due_date : TaskDueDates, status : TaskStatuses]

\* datetime.fromisoformat(due_date).date(): <<day>>, or <<>> on ValueError
FromIsoFormat(due_date) == IF due_date > 0 THEN <<due_date>> ELSE <<>>

\* Task.is_overdue with its comparison admitting today
IsOverdueOrDueToday(task, today) ==
    IF task.status = "Completed" THEN FALSE
    ELSE LET due == FromIsoFormat(task.due_date)
         IN  IF due = <<>> THEN FALSE ELSE due[1] <= today

\* Task.is_overdue, lines 50-57
IsOverdue(task, today) ==
    IF task.status = "Completed" THEN FALSE
    ELSE LET due == FromIsoFormat(task.due_date)
         IN  IF due = <<>> THEN FALSE ELSE due[1] < today

RECURSIVE Filter(_, _)
\* [task for task in list if task.is_overdue()]
Filter(list, today) ==
    IF list = <<>> THEN <<>>
    ELSE IF IsOverdue(Head(list), today)
         THEN <<Head(list)>> \o Filter(Tail(list), today)
         ELSE Filter(Tail(list), today)

\* the fields of the dataclass, in the order of lines 31-41
TaskFields == <<"id", "title", "due_date", "status">>

\* Task.to_dict (asdict), lines 43-44, as json.dump writes it: the members
\* <<name, value>> of one JSON object, in the order of the fields
ToDict(task) == [k \in DOMAIN TaskFields |-> <<TaskFields[k], task[TaskFields[k]]>>]

\* the value of the member of a JSON object with this name
Member(data, name) == data[CHOOSE k \in DOMAIN data : data[k][1] = name][2]

\* Task.from_dict that leaves status at a default instead of reading it
FromDictWithDefaultStatus(data) ==
    [id |-> Member(data, "id"), title |-> Member(data, "title"),
     due_date |-> Member(data, "due_date"), status |-> "Pending"]

\* Task.from_dict (cls(**data)), lines 46-48
FromDict(data) ==
    [id |-> Member(data, "id"), title |-> Member(data, "title"),
     due_date |-> Member(data, "due_date"), status |-> Member(data, "status")]

\* the file tasks.json: absent, a JSON list of dicts, or cut short by a failed write
JsonFile(list) == [state |-> "json", data |-> [i \in DOMAIN list |-> ToDict(list[i])]]
AbsentFile == [state |-> "absent", data |-> <<>>]
TruncatedFile == [state |-> "truncated", data |-> <<>>]

\* how a save_tasks call ends: the dump is written; open() raises; or
\* json.dump raises after open(data_file, 'w') has emptied the file
SaveOutcomes == {"saved", "open_failed", "dump_failed"}

\* TaskManager.save_tasks, lines 102-107: the file after saving list
SaveTasks(list, outcome) ==
    IF outcome = "saved" THEN JsonFile(list)
    ELSE IF outcome = "open_failed" THEN taskFile
    ELSE TruncatedFile

\* TaskManager.load_tasks, lines 109-117: the list read from the file
LoadTasks ==
    IF taskFile.state = "json"
    THEN [i \in DOMAIN taskFile.data |-> FromDict(taskFile.data[i])]
    ELSE <<>>

\* TaskManager.get_overdue_tasks, lines 99-100, asked on day today
GetOverdueTasks(list, today) == [today |-> today, tasks |-> Filter(list, today)]

\* a uuid4 that gives every new task the same id, the first of them
RepeatedTaskId == CHOOSE id \in TaskIds : \A other \in TaskIds : id <= other

\* the id uuid4 gives a new task: the first id no task of the list has
NewTaskId ==
    CHOOSE id \in 1..(Len(tasks) + 1) :
        /\ \A i \in DOMAIN tasks : tasks[i].id # id
        /\ \A other \in 1..(id - 1) : \E i \in DOMAIN tasks : tasks[i].id = other

\* TaskManager.add_task, lines 74-76, called by TaskManagerApp.add_task
AddTask(task, outcome, today) ==
    /\ app = "tasks"
    /\ Len(tasks) < MaxTasks
    /\ task.id = NewTaskId
    /\ tasks' = Append(tasks, task)
    /\ taskFile' = SaveTasks(tasks', outcome)
    /\ overdue' = GetOverdueTasks(tasks', today)
    /\ UNCHANGED <<app, inventoryVars, hotelVars, libraryVars>>

\* index of the first task of the list with this id, 0 if none
IndexOf(task_id) ==
    IF \E i \in DOMAIN tasks : tasks[i].id = task_id
    THEN CHOOSE i \in DOMAIN tasks :
             /\ tasks[i].id = task_id
             /\ \A j \in DOMAIN tasks : tasks[j].id = task_id => i <= j
    ELSE 0

\* TaskManager.update_task, lines 78-84, called by edit_task and mark_complete
UpdateTask(task_id, updated_task, outcome, today) ==
    /\ app = "tasks"
    /\ updated_task.id = task_id
    /\ IF IndexOf(task_id) # 0
       THEN /\ tasks' = [tasks EXCEPT ![IndexOf(task_id)] = updated_task]
            /\ taskFile' = SaveTasks(tasks', outcome)
       ELSE UNCHANGED <<tasks, taskFile>>
    /\ overdue' = GetOverdueTasks(tasks', today)
    /\ UNCHANGED <<app, inventoryVars, hotelVars, libraryVars>>

\* TaskManager.delete_task, lines 86-88, called by TaskManagerApp.delete_task
DeleteTask(task_id, outcome, today) ==
    /\ app = "tasks"
    /\ tasks' = SelectSeq(tasks, LAMBDA task : task.id # task_id)
    /\ taskFile' = SaveTasks(tasks', outcome)
    /\ overdue' = GetOverdueTasks(tasks', today)
    /\ UNCHANGED <<app, inventoryVars, hotelVars, libraryVars>>

\* index of the first task of the list with this title, 0 if none: the loop
\* "for t in get_all_tasks(): if t.title == item['values'][0]"
FindByTitle(title) ==
    IF \E i \in DOMAIN tasks : tasks[i].title = title
    THEN CHOOSE i \in DOMAIN tasks :
             /\ tasks[i].title = title
             /\ \A j \in DOMAIN tasks : tasks[j].title = title => i <= j
    ELSE 0

\* TaskManagerApp.edit_task, lines 319-345, with the row-th row selected (the
\* rows are the tasks in list order, lines 399-417) and the dialog saved with
\* result: TaskDialog.save_task keeps the id of the task it was opened with
\* and gives due_date the ISO text of the DateEntry's date
AppEditTask(row, result, outcome, today) ==
    /\ row \in DOMAIN tasks
    /\ LET task == tasks[FindByTitle(tasks[row].title)]
       IN  /\ result.id = task.id
           /\ UpdateTask(task.id, result, outcome, today)

\* TaskManagerApp.delete_task, lines 347-363, with the row-th row selected
AppDeleteTask(row, outcome, today) ==
    /\ row \in DOMAIN tasks
    /\ LET task == tasks[FindByTitle(tasks[row].title)]
       IN  DeleteTask(task.id, outcome, today)

\* TaskManagerApp.mark_complete, lines 365-391, with the row-th row selected
AppMarkComplete(row, outcome, today) ==
    /\ row \in DOMAIN tasks
    /\ LET task == tasks[FindByTitle(tasks[row].title)]
       IN  UpdateTask(task.id, [task EXCEPT !.status = "Completed"], outcome, today)

\* the program is started again: TaskManager.__init__ (lines 69-72) loads the
\* file and TaskManagerApp.__init__ (line 251) checks for overdue tasks
Restart(today) ==
    /\ app = "tasks"
    /\ tasks' = LoadTasks
    /\ overdue' = GetOverdueTasks(tasks', today)
    /\ UNCHANGED <<app, taskFile, inventoryVars, hotelVars, libraryVars>>

\* the tasks the TaskManager's methods are called with: no method of it reads
\* the title, so one title stands for all
ManagerTasks == {task \in Tasks : task.title = "a"}

\* the tasks a saved TaskDialog results in, lines 200-236
DialogTasks == {task \in Tasks : task.due_date # 0}

NextTasks ==
    \/ \E task \in ManagerTasks, outcome \in SaveOutcomes, today \in Todays :
           AddTask(task, outcome, today)
    \/ \E task \in ManagerTasks, outcome \in SaveOutcomes, today \in Todays :
           UpdateTask(task.id, task, outcome, today)
    \/ \E task_id \in TaskIds, outcome \in SaveOutcomes, today \in Todays :
           DeleteTask(task_id, outcome, today)
    \/ \E today \in Todays : Restart(today)

\* the handlers of the window's buttons, each with a row selected
NextTaskWindow ==
    \/ \E result \in DialogTasks, outcome \in SaveOutcomes, today \in Todays :
           AddTask(result, outcome, today)
    \/ \E row \in 1..MaxTasks, result \in DialogTasks, outcome \in SaveOutcomes,
          today \in Todays :
           AppEditTask(row, result, outcome, today)
    \/ \E row \in 1..MaxTasks, outcome \in SaveOutcomes, today \in Todays :
           AppDeleteTask(row, outcome, today)
    \/ \E row \in 1..MaxTasks, outcome \in SaveOutcomes, today \in Todays :
           AppMarkComplete(row, outcome, today)
    \/ \E today \in Todays : Restart(today)

InitInventoryDb ==
    /\ items = <<>>
    /\ transactions = <<>>
    /\ conn = [r \in Requests |-> IdleConn]
    /\ response = None
    /\ dbLock = 0

InitHotelDb ==
    /\ rooms = [id \in 1..NumRooms |->
                  [status |-> "available", price_per_night |-> PricePerNight]]
    /\ bookings = <<>>
    /\ hotelResult = None
    /\ hotelRequest = [user_id |-> 0, id |-> 0]   \* no request yet

InitLibraryDb ==
    /\ books = <<>>
    /\ users = <<>>
    /\ borrow_records = <<>>
    /\ reservations = <<>>
    /\ libResult = LibResult(None, None)

\* the first start, with no tasks.json
InitTaskManager ==
    /\ tasks = <<>>
    /\ taskFile = AbsentFile
    /\ overdue = GetOverdueTasks(<<>>, FirstDay)

Init ==
    /\ app \in {"inventory", "hotel", "library", "tasks"}
    /\ InitInventoryDb
    /\ InitHotelDb
    /\ InitLibraryDb
    /\ InitTaskManager

Next == NextInventory \/ NextItems \/ NextHotel \/ NextLibrary \/ NextTasks

Spec == Init /\ [][Next]_vars

InitInventory == Init /\ app = "inventory"

SpecItems == InitInventory /\ [][NextItems]_vars

\* a handler that has started runs on: its statement that needs the write
\* lock is executed or times out, and the statements after it and the commit
\* follow.  Nothing finalises the connection an exception has left open.
FairSpecItems ==
    /\ SpecItems
    /\ \A r \in Requests :
          /\ WF_vars(AddTransactionUpdate(r) \/ AddItemInsert(r) \/ EditItemUpdate(r)
                     \/ LockTimeout(r))
          /\ WF_vars(AddTransactionInsert(r))
          /\ WF_vars(Commit(r))

\* the inventory app after add_item calls with quantity 0 have made an item of
\* every id of ItemIds: no transaction row yet
InitTwoItems ==
    /\ app = "inventory"
    /\ items = [i \in ItemIds |-> [quantity |-> 0,
                                   unit_price |-> CHOOSE p \in Prices : TRUE,
                                   minimum_stock |-> CHOOSE m \in MinimumStocks : TRUE]]
    /\ transactions = <<>>
    /\ conn = [r \in Requests |-> IdleConn]
    /\ response = None
    /\ dbLock = 0
    /\ InitHotelDb
    /\ InitLibraryDb
    /\ InitTaskManager

\* concurrent add_transaction requests
NextTransactions ==
    \E r \in Requests :
        \/ \E item_id \in ItemIds, trans_type \in TransTypes,
              quantity \in TransQuantities, unit_price \in Prices :
               AddTransactionSelect(r, item_id, trans_type, quantity, unit_price)
        \/ AddTransactionUpdate(r)
        \/ AddTransactionInsert(r)
        \/ LockTimeout(r)
        \/ Commit(r)
        \/ Rollback(r)

SpecTwoItems == InitTwoItems /\ [][NextTransactions]_vars

\* quantity of the i-th item of a stocked database: one of two that no other
\* item has, the first low and the second, but for item 1, above the minimum
StockedQuantities(i) == {i - 1, 10 * i}

\* table items after add_item calls: up to one item more than the dashboard
\* lists
ItemTables ==
    UNION {{tbl \in [1..n -> [quantity : UNION {StockedQuantities(i) : i \in 1..n},
                              unit_price : Prices, minimum_stock : MinimumStocks]] :
               \A i \in 1..n : tbl[i].quantity \in StockedQuantities(i)} :
           n \in 0..(LowStockLimit + 1)}

RECURSIVE InitialTransactions(_, _)
\* table transactions after the add_item calls for the first n rows of tbl: the
\* initial 'in' row of each item added with a quantity above 0
InitialTransactions(tbl, n) ==
    IF n = 0 THEN <<>>
    ELSE IF tbl[n].quantity > 0
         THEN Append(InitialTransactions(tbl, n - 1),
                     [item_id |-> n, type |-> "in", quantity |-> tbl[n].quantity,
                      unit_price |-> tbl[n].unit_price])
         ELSE InitialTransactions(tbl, n - 1)

\* the inventory app over a stocked database, serving the dashboard only
InitDashboard ==
    /\ app = "inventory"
    /\ items \in ItemTables
    /\ transactions = InitialTransactions(items, Len(items))
    /\ conn = [r \in Requests |-> IdleConn]
    /\ response = None
    /\ dbLock = 0
    /\ InitHotelDb
    /\ InitLibraryDb
    /\ InitTaskManager

SpecDashboard == InitDashboard /\ [][NextDashboard]_vars

SpecInventory == InitInventory /\ [][NextInventory]_vars

InitHotel == Init /\ app = "hotel"

SpecHotel == InitHotel /\ [][NextHotel]_vars

InitLibrary == Init /\ app = "library"

SpecLibrary == InitLibrary /\ [][NextLibrary]_vars

InitTasks == Init /\ app = "tasks"

SpecTasks == InitTasks /\ [][NextTasks]_vars

SpecTaskWindow == InitTasks /\ [][NextTaskWindow]_vars
(***************************************************************************)
(* Properties of the inventory ledger.                                     *)
(***************************************************************************)
RECURSIVE NetMovementUpTo(_, _)
\* sum of the 'in' quantities minus the 'out' quantities of the first n
\* transaction rows recorded against item i
NetMovementUpTo(i, n) ==
    IF n = 0 THEN 0
    ELSE NetMovementUpTo(i, n - 1)
         + (IF transactions[n].item_id # i THEN 0
            ELSE IF transactions[n].type = "in" THEN transactions[n].quantity
            ELSE -transactions[n].quantity)

NetMovement(i) == NetMovementUpTo(i, Len(transactions))

RowsOf(i, type) ==
    {k \in DOMAIN transactions :
        transactions[k].item_id = i /\ transactions[k].type = type}

\* C1: every item's stored quantity equals the sum of the quantities of its
\* 'in' transactions minus the sum of the quantities of its 'out' transactions,
\* after any interleaving of add_item and add_transaction calls.
C1_QuantityIsNetOfTransactions ==
    \A i \in DOMAIN items : items[i].quantity = NetMovement(i)

\* C2: an add_transaction call of type 'out' whose quantity is greater than the
\* item's quantity when the call reads it is rejected as insufficient stock: it
\* returns at once, holds no lock, records no transaction row and leaves the
\* item's quantity unchanged.
C2_OutBeyondStockRejected ==
    [][\A r \in Requests, item_id \in ItemIds, quantity \in TransQuantities,
          unit_price \in Prices :
          (/\ AddTransactionSelect(r, item_id, "out", quantity, unit_price)
           /\ item_id \in DOMAIN items
           /\ quantity > items[item_id].quantity)
          => /\ response' = "InsufficientStock"
             /\ conn'[r] = IdleConn
             /\ UNCHANGED <<items, transactions, dbLock>>]_vars

\* C2 witness: an 'out' call has been rejected for an item in stock
C2_Witness ==
    /\ response = "InsufficientStock"
    /\ \E i \in DOMAIN items : items[i].quantity >= 0 /\ items[i].quantity < 6

\* C3: of two 'out' requests of quantity 6 against an item stocked with 10,
\* exactly one is applied and the other is rejected: the item's transaction rows
\* never show both applied to the one initial stock of 10.
C3_ExactlyOneOutApplied ==
    \A i \in DOMAIN items :
        (/\ \A k \in RowsOf(i, "in") : transactions[k].quantity = 10
         /\ Cardinality(RowsOf(i, "in")) = 1
         /\ \A k \in RowsOf(i, "out") : transactions[k].quantity = 6)
        => Cardinality(RowsOf(i, "out")) <= 1

\* C4: every item's quantity is non-negative in every reachable state.
C4_QuantityNonNegative ==
    \A i \in DOMAIN items : items[i].quantity >= 0

\* C5: an add_transaction call whose quantity is zero or negative is rejected:
\* no transaction row with such a quantity is ever recorded.
C5_NonPositiveAmountRejected ==
    \A k \in DOMAIN transactions : transactions[k].quantity > 0
(***************************************************************************)
(* Properties of the unit-resources: rooms and their bookings, books and   *)
(* their borrow records.                                                   *)
(***************************************************************************)
\* C6: opening a booking or a loan on a resource that is not available is
\* rejected: book_room on a room whose status is not 'available' creates no
\* booking and leaves the room as it is, and add_borrow_record on a book whose
\* status is not Available creates no record and leaves the book as it is.
C6_UnavailableResourceRejected ==
    [][/\ \A user_id \in Guests, room_id \in DOMAIN rooms, check_in \in Days,
             check_out \in Days :
             (/\ BookRoom(user_id, room_id, check_in, check_out)
              /\ rooms[room_id].status # "available")
             => UNCHANGED <<rooms, bookings>>
       /\ \A id \in RecordKeys, book_id \in DOMAIN books, user_id \in UserKeys :
             (/\ AddBorrowRecord(id, book_id, user_id)
              /\ books[book_id].status # "Available")
             => UNCHANGED <<books, users, borrow_records>>]_vars

\* C7: a borrow record is closed at most once: return_book on a record that is
\* already Returned is rejected and leaves the record's return_date and
\* late_fee, the book's status and the user's borrowed_books as they were.
C7_ReturnedRecordNotClosedAgain ==
    [][\A record_id \in DOMAIN borrow_records, return_date \in ReturnDates,
          late_fee \in LateFees :
          (/\ ReturnBook(record_id, return_date, late_fee)
           /\ borrow_records[record_id].status = "Returned")
          => /\ UNCHANGED <<books, users, borrow_records>>
             /\ libResult'.outcome # "True"]_vars

\* C9: a room is 'occupied' exactly when it has a booking with status
\* 'confirmed', and a book is Borrowed exactly when it has a borrow record with
\* status Active.
C9_StatusAgreesWithOpenLoans ==
    /\ \A room_id \in DOMAIN rooms :
          rooms[room_id].status = "occupied"
          <=> \E b \in DOMAIN bookings :
                 bookings[b].room_id = room_id /\ bookings[b].status = "confirmed"
    /\ \A book_id \in DOMAIN books :
          books[book_id].status = "Borrowed"
          <=> \E rec \in DOMAIN borrow_records :
                 /\ borrow_records[rec].book_id = book_id
                 /\ borrow_records[rec].status = "Active"

ActiveReservations(book_id) ==
    {v \in DOMAIN reservations :
        reservations[v].book_id = book_id /\ reservations[v].status = "Active"}

\* C10: when return_book closes a loan, the book becomes Available only if it
\* has no Active reservation; if it has one, the book becomes Reserved and the
\* oldest Active reservation for it is marked Fulfilled.
C10_ReturnHonoursReservations ==
    [][\A record_id \in DOMAIN borrow_records, return_date \in ReturnDates,
          late_fee \in LateFees :
          LET book_id == borrow_records[record_id].book_id IN
          (/\ ReturnBook(record_id, return_date, late_fee)
           /\ borrow_records[record_id].status = "Active"
           /\ book_id \in DOMAIN books)
          => IF ActiveReservations(book_id) = {}
             THEN books'[book_id].status = "Available"
             ELSE /\ books'[book_id].status = "Reserved"
                  /\ \E v \in ActiveReservations(book_id) :
                        /\ \A w \in ActiveReservations(book_id) :
                              reservations[v].reservation_date
                                  <= reservations[w].reservation_date
                        /\ reservations'[v].status = "Fulfilled"]_vars
\* the daily rates a late fee may have been charged at
DailyRates == {1, 2}

DaysLate(due_date, return_date) ==
    IF return_date > due_date THEN return_date - due_date ELSE 0

\* C11: the late fee return_book stores on a borrow record is the number of
\* whole days from due_date to return_date, or 0 if that is negative, times the
\* daily rate: 0 whenever return_date <= due_date, and never negative.
C11_LateFeeFromDates ==
    \A rec \in DOMAIN borrow_records :
        borrow_records[rec].status = "Returned"
        => \E rate \in DailyRates :
              borrow_records[rec].late_fee =
                  DaysLate(borrow_records[rec].due_date, borrow_records[rec].return_date)
                  * rate

\* C12: cancel_booking on a booking id that does not exist for the caller
\* reports not-found, and on a booking that is no longer confirmed reports that
\* it is already resolved; in both cases no booking row and no room changes.
C12_CancelIsGuarded ==
    [][\A user_id \in Guests, booking_id \in BookingIds :
          CancelBooking(user_id, booking_id)
          => /\ ~SelectBooking(booking_id, user_id)
                => /\ hotelResult' = "Booking not found!"
                   /\ UNCHANGED <<rooms, bookings>>
             /\ (SelectBooking(booking_id, user_id)
                 /\ bookings[booking_id].status # "confirmed")
                => /\ hotelResult' # "Booking cancelled successfully!"
                   /\ UNCHANGED <<rooms, bookings>>]_vars
(***************************************************************************)
(* Properties of the dashboard and of the transaction rows.                *)
(***************************************************************************)
\* a dashboard call that has run its last SELECT
Rendering(r) == conn[r].handler = "dashboard" /\ conn[r].pc = "rendering"

Listed(r) == {conn[r].low_stock_items[k].id : k \in DOMAIN conn[r].low_stock_items}

AtOrBelowMinimum == {i \in DOMAIN items : items[i].quantity <= items[i].minimum_stock}

\* C15: over a stocked database, the dashboard's low-stock list holds every
\* item with quantity <= minimum_stock and no other item, in ascending order of
\* quantity, whatever other items exist.
C15_LowStockListComplete ==
    \A r \in Requests :
        Rendering(r)
        => /\ Listed(r) = AtOrBelowMinimum
           /\ \A k, l \in DOMAIN conn[r].low_stock_items :
                 k < l => conn[r].low_stock_items[k].quantity
                              <= conn[r].low_stock_items[l].quantity

RECURSIVE ValueOf(_)
\* the value of the items with the ids ids: quantity * unit_price, summed
ValueOf(ids) ==
    IF ids = {} THEN 0
    ELSE LET i == CHOOSE i \in ids : TRUE
         IN  items[i].quantity * items[i].unit_price + ValueOf(ids \ {i})

\* C16: the summary of a dashboard call over a stocked database is the
\* aggregation of table items: total_items the number of items, total_value the
\* sum of quantity * unit_price over all items (0 when there are none), and
\* low_stock the number of items with quantity <= minimum_stock.
C16_SummaryIsAggregation ==
    \A r \in Requests :
        Rendering(r)
        => /\ conn[r].total_items = Cardinality(DOMAIN items)
           /\ conn[r].total_value = ValueOf(DOMAIN items)
           /\ conn[r].low_stock = Cardinality(AtOrBelowMinimum)

\* C16 witness: a dashboard has summed up a database of several items, some
\* low in stock (one of them with its quantity at the minimum) and some not
C16_Witness ==
    \E r \in Requests :
        /\ Rendering(r)
        /\ conn[r].total_items >= 3
        /\ conn[r].low_stock >= 2
        /\ conn[r].low_stock < conn[r].total_items
        /\ \E i \in DOMAIN items : items[i].quantity = items[i].minimum_stock

\* C17: a dashboard running next to add_item and add_transaction never shows
\* a half-applied mutation: the transactions it lists and the item quantities
\* it lists are of one committed state, never a quantity changed without its
\* transaction row or the row without the change.
C17_ReadsSeeWholeMutations ==
    \A r \in Requests :
        Rendering(r)
        => \* no listed transaction is missing from the total value read before
           /\ \A k \in DOMAIN conn[r].recent_transactions :
                 conn[r].recent_transactions[k] <= conn[r].read_at[2][2]
           \* no listed item has a transaction committed after the transactions
           \* were listed
           /\ \A n \in DOMAIN transactions :
                 (conn[r].read_at[4][2] < n /\ n <= conn[r].read_at[5][2])
                 => transactions[n].item_id \notin Listed(r)

\* C18: all values one dashboard call produces (total_items, total_value, the
\* low_stock count, the recent transactions and the low-stock list) are read
\* from one and the same committed state, also when add_item or
\* add_transaction commits meanwhile; and no step of the dashboard changes a
\* row.
C18_DashboardReadsOneSnapshot ==
    [][\A r \in Requests :
          (conn'[r].handler = "dashboard" /\ conn'[r] # conn[r])
          => /\ UNCHANGED <<items, transactions>>
             /\ \A k, l \in DOMAIN conn'[r].read_at :
                   conn'[r].read_at[k] = conn'[r].read_at[l]]_vars

\* C19: committed transaction rows are immutable: every step of the inventory
\* app leaves each committed row as it is and deletes none, so the table only
\* grows.
C19_TransactionsImmutable ==
    [][/\ Len(transactions') >= Len(transactions)
       /\ \A k \in DOMAIN transactions : transactions'[k] = transactions[k]]_vars

\* C19 witness: a row committed earlier is there after a later add_transaction
\* has committed its own
C19_Witness ==
    /\ response = "ok"
    /\ Len(transactions) >= 2
    /\ transactions[Len(transactions)].type = "out"
(***************************************************************************)
(* Properties of the task manager.                                         *)
(***************************************************************************)
\* C13: a task is among the overdue tasks exactly when its status is not
\* Completed and its due date is a date strictly before today: a task due
\* today is not overdue, and a Completed task never is.
C13_OverdueExactly ==
    /\ \A i \in DOMAIN overdue.tasks : \E j \in DOMAIN tasks : overdue.tasks[i] = tasks[j]
    /\ \A j \in DOMAIN tasks :
          (\E i \in DOMAIN overdue.tasks : overdue.tasks[i] = tasks[j])
          <=> /\ tasks[j].status # "Completed"
              /\ tasks[j].due_date \in 1..(overdue.today - 1)

\* C13 witness: one task is reported overdue while another, not Completed, is
\* due today
C13_Witness ==
    /\ overdue.tasks # <<>>
    /\ \E j \in DOMAIN tasks :
          tasks[j].status # "Completed" /\ tasks[j].due_date = overdue.today

\* C14: the overdue list is ordered by due date ascending, ties broken by id,
\* whatever the order in which the tasks were created, updated or stored.
C14_OverdueOrdered ==
    \A i, j \in DOMAIN overdue.tasks :
        i < j => \/ overdue.tasks[i].due_date < overdue.tasks[j].due_date
                 \/ /\ overdue.tasks[i].due_date = overdue.tasks[j].due_date
                    /\ overdue.tasks[i].id < overdue.tasks[j].id

\* C20: the in-memory task list and the stored file never disagree: when
\* save_tasks fails inside add_task, update_task or delete_task, the list is
\* back at its value before the call.
C20_ListAgreesWithFile ==
    tasks = LoadTasks
\* the kinds of error a rejected library call may report
ErrorKinds == {"ResourceUnavailable", "AlreadyClosed", "NotFound", "Busy", "StorageError"}

\* C21: every add_borrow_record or return_book call that does not succeed
\* tells its caller which kind of error occurred: its result is one of the
\* error kinds, never a generic failure shared by different causes.
C21_FailuresAreTyped ==
    libResult.op \in {"add_borrow_record", "return_book"}
    => libResult.outcome \in {"True"} \cup ErrorKinds

\* the number of user_id's borrow records with status Active
ActiveRecords(tbl, user_id) ==
    Cardinality({rec \in DOMAIN tbl :
                    tbl[rec].user_id = user_id /\ tbl[rec].status = "Active"})

\* every user's counter is the number of the user's Active records
CountersAgree(userTbl, recordTbl) ==
    \A u \in DOMAIN userTbl :
        /\ userTbl[u].borrowed_books = ActiveRecords(recordTbl, u)
        /\ userTbl[u].borrowed_books >= 0

\* C25: each user's borrowed_books counter equals the number of that user's
\* borrow records with status Active and is never negative: add_borrow_record
\* and return_book calls on a store where this is so leave it so.
C25_BorrowedBooksCountsActive ==
    [][(/\ libResult'.op \in {"add_borrow_record", "return_book"}
        /\ CountersAgree(users, borrow_records))
       => CountersAgree(users', borrow_records')]_vars

\* C26: cancel_booking invoked by a user changes no booking of another user:
\* for a booking id owned by another user it reports not-found and leaves
\* bookings and rooms unchanged.
C26_CancelOnlyOwnBooking ==
    [][\A user_id \in Guests, booking_id \in BookingIds :
          CancelBooking(user_id, booking_id)
          => /\ \A b \in DOMAIN bookings :
                   bookings[b].user_id # user_id => bookings'[b] = bookings[b]
             /\ (booking_id \in DOMAIN bookings
                 /\ bookings[booking_id].user_id # user_id)
                => /\ hotelResult' = "Booking not found!"
                   /\ UNCHANGED <<rooms, bookings>>]_vars

\* C26 witness: user 2 has asked to cancel a confirmed booking of user 1 and
\* was answered not-found; the booking is still confirmed and its room occupied
C26_Witness ==
    /\ hotelResult = "Booking not found!"
    /\ hotelRequest.user_id = 2
    /\ hotelRequest.id \in DOMAIN bookings
    /\ bookings[hotelRequest.id].user_id = 1
    /\ bookings[hotelRequest.id].status = "confirmed"
    /\ rooms[bookings[hotelRequest.id].room_id].status = "occupied"

\* C30: every booking stored by book_room has its check_out_date strictly
\* after its check_in_date, and its total_price is price_per_night times the
\* number of nights, above zero for a room with a price above zero.
C30_BookingDatesAndPrice ==
    \A b \in DOMAIN bookings :
        /\ bookings[b].check_out_date > bookings[b].check_in_date
        /\ bookings[b].room_id \in DOMAIN rooms
           => /\ bookings[b].total_price =
                     rooms[bookings[b].room_id].price_per_night
                     * (bookings[b].check_out_date - bookings[b].check_in_date)
              /\ bookings[b].total_price > 0
\* column quantity of table items
Quantities(tbl) == [i \in DOMAIN tbl |-> tbl[i].quantity]

\* column unit_price of table items
UnitPrices(tbl) == [i \in DOMAIN tbl |-> tbl[i].unit_price]

\* C24: quantity has a single writer.  The commit of edit_item leaves every
\* item's quantity and unit_price as they were, and every step that writes a
\* quantity, of a new item or of an existing one, is a commit of add_item or
\* of add_transaction that adds a transaction row of that item with it.
C24_QuantityWrittenWithTransaction ==
    [][/\ \A r \in Requests :
             (conn[r].handler = "edit_item" /\ Commit(r))
             => /\ Quantities(items') = Quantities(items)
                /\ UnitPrices(items') = UnitPrices(items)
       /\ Quantities(items') # Quantities(items)
          => /\ \E r \in Requests :
                   /\ conn[r].handler \in {"add_item", "add_transaction"}
                   /\ Commit(r)
             /\ Len(transactions') = Len(transactions) + 1
             /\ \E i \in DOMAIN items' :
                   /\ i \in DOMAIN items => items'[i].quantity # items[i].quantity
                   /\ transactions'[Len(transactions')].item_id = i]_vars

\* the handler has returned or raised
Finished(r) == conn[r].pc \in {"idle", "aborted"}

C23_DifferentItemsDoNotBlock ==
    \A r \in Requests :
        (conn[r].handler = "add_transaction" /\ conn[r].pc = "checked" /\ dbLock # 0)
        => conn[dbLock].item_id = conn[r].item_id

\* the list without its row-th task
WithoutRow(list, row) ==
    [i \in 1..(Len(list) - 1) |-> IF i < row THEN list[i] ELSE list[i + 1]]

\* C27: the task changed by the window's edit_task, delete_task and
\* mark_complete is the task of the selected row, and no other task is
\* modified or removed, also when several tasks share a title.
C27_SelectedRowOnly ==
    [][\A row \in 1..MaxTasks, outcome \in SaveOutcomes, today \in Todays :
          /\ \A result \in DialogTasks :
                AppEditTask(row, result, outcome, today)
                => tasks' = [tasks EXCEPT ![row] = result]
          /\ AppDeleteTask(row, outcome, today) => tasks' = WithoutRow(tasks, row)
          /\ AppMarkComplete(row, outcome, today)
             => tasks' = [tasks EXCEPT ![row].status = "Completed"]]_vars

C29_SaveLoadRoundTrip ==
    [][LET today == overdue'.today   \* the day of the call
       IN  (\/ /\ tasks' # <<>>
               /\ AddTask(tasks'[Len(tasks')], "saved", today)
            \/ \E i \in DOMAIN tasks' :
                   /\ IndexOf(tasks'[i].id) # 0
                   /\ UpdateTask(tasks'[i].id, tasks'[i], "saved", today)
            \/ \E task_id \in TaskIds : DeleteTask(task_id, "saved", today))
           => LoadTasks' = tasks']_vars

\* C29 witness: a file that holds a full list, with a completed task and one
\* whose due_date is no ISO text, and loads as the list in memory
C29_Witness ==
    /\ Len(tasks) = MaxTasks
    /\ taskFile.state = "json"
    /\ Len(taskFile.data) = MaxTasks
    /\ LoadTasks = tasks
    /\ \E i \in DOMAIN tasks : tasks[i].status = "Completed"
    /\ \E i \in DOMAIN tasks : tasks[i].due_date = 0

(***************************************************************************)
(* Atomicity of the ledger operations.                                     *)
(***************************************************************************)
\* the three updates of return_book on record rec, all applied
ReturnApplied(rec) ==
    LET old == borrow_records[rec] IN
    /\ borrow_records'[rec].status = "Returned"
    /\ \A other \in DOMAIN borrow_records \ {rec} :
          borrow_records'[other] = borrow_records[other]
    /\ DOMAIN books' = DOMAIN books
    /\ \A b \in DOMAIN books :
          books'[b] = IF b = old.book_id THEN [status |-> "Available"] ELSE books[b]
    /\ DOMAIN users' = DOMAIN users
    /\ \A u \in DOMAIN users :
          users'[u].borrowed_books =
              users[u].borrowed_books - (IF u = old.user_id THEN 1 ELSE 0)

\* the three writes of add_borrow_record for a new record rec, all applied
BorrowApplied(rec) ==
    /\ rec \notin DOMAIN borrow_records
    /\ DOMAIN borrow_records' = DOMAIN borrow_records \cup {rec}
    /\ borrow_records'[rec].status = "Active"
    /\ \A b \in DOMAIN books :
          books'[b].status =
              IF b = borrow_records'[rec].book_id THEN "Borrowed" ELSE books[b].status
    /\ \A u \in DOMAIN users :
          users'[u].borrowed_books =
              users[u].borrowed_books
              + (IF u = borrow_records'[rec].user_id THEN 1 ELSE 0)


\* the two writes of add_transaction by the connection of handler r, applied
TransactionApplied(r) ==
    /\ conn[r].handler = "add_transaction"
    /\ Len(items') = Len(items)
    /\ items'[conn[r].item_id].quantity = conn[r].new_quantity
    /\ \A i \in DOMAIN items \ {conn[r].item_id} : items'[i] = items[i]
    /\ Len(transactions') = Len(transactions) + 1
    /\ SubSeq(transactions', 1, Len(transactions)) = transactions
    /\ transactions'[Len(transactions')].item_id = conn[r].item_id
    /\ transactions'[Len(transactions')].type = conn[r].trans_type
    /\ transactions'[Len(transactions')].quantity = conn[r].quantity

\* C8: every ledger operation is all-or-nothing.  A step of return_book applies
\* its three updates or changes nothing; a step of add_borrow_record inserts the
\* record, sets the book Borrowed and increments the user's count, or changes
\* nothing; and the committed quantity of an existing item and the committed
\* transaction rows change only together, as the two writes of one
\* add_transaction call.
C8_LedgerOperationsAtomic ==
    [][/\ libResult'.op = "return_book"
          => \/ UNCHANGED <<books, users, borrow_records>>
             \/ \E rec \in DOMAIN borrow_records : ReturnApplied(rec)
       /\ libResult'.op = "add_borrow_record"
          => \/ UNCHANGED <<books, users, borrow_records>>
             \/ \E rec \in RecordKeys : BorrowApplied(rec)
       /\ (/\ Len(items') = Len(items)
           /\ <<Quantities(items), transactions>>' # <<Quantities(items), transactions>>)
          => \E r \in Requests : TransactionApplied(r)]_vars

\* C8 witness: return_book has applied its updates to a record, its book and
\* its user
C8_Witness ==
    /\ libResult = LibResult("return_book", "True")
    /\ \E rec \in DOMAIN borrow_records :
          /\ borrow_records[rec].status = "Returned"
          /\ borrow_records[rec].book_id \in DOMAIN books
          /\ borrow_records[rec].user_id \in DOMAIN users
====
